---- MODULE Spec2Model ----
(***************************************************************************)
(* Push-to-talk speech-to-text: the capture-and-transcribe state machine.  *)
(*                                                                         *)
(* Two button components exist, one per capture backend:                   *)
(*   Local       PushToTalkButton (MediaRecorder) + useAudioRecording hook *)
(*   Subprocess  PushToTalkButton (arecord through Tauri commands)         *)
(* backendKind selects which one a behaviour is about.  Every async        *)
(* handler invocation that is suspended at an await is an element of       *)
(* tasks; a step of the model is one run-to-completion piece of JavaScript *)
(* (an event handler up to its first await, or the continuation of one     *)
(* await up to the next), followed by the React render it causes.          *)
(***************************************************************************)
EXTENDS Integers, Sequences, FiniteSets, Bags, TLC

\* ---- bounds --------------------------------------------------------------
MaxOps == 4      \* user operations (clicks, pause/resume calls, settings saves)
MaxTime == 1     \* cap on recordingTime (seconds ticked)
MaxErrors == 2   \* cap on onError calls caused by the auto-clear timer alone

\* ---- values --------------------------------------------------------------
Null == "<null>"

disabled == FALSE

Keys == {Null, "", "sk-1"}

Languages == {Null}

SettingsValues == [apiKey : Keys, language : Languages]

\* sizes of what a recorder hands over at stop: nothing, or some audio
ClipSizes == {0, 1}

\* transcription texts are sequences of characters
Texts == { <<>>, <<" ">>, <<" ", "o", "k">> }

\* values a rejected promise can carry: an Error object, or the string a
\* command returned as its Err (the request could not be sent; the service
\* answered 401)
Rejections == { [isError |-> TRUE, message |-> "Failed to send transcription request"],
                [isError |-> FALSE, message |-> "Failed to send transcription request"],
                [isError |-> FALSE, message |-> "Mistral API error (401)"] }

MsgNoAudio == "No audio data captured"

MsgApiKey == "API key required. Please configure your Mistral API key in settings."

MsgEmpty == "Transcription returned empty result"

MsgTranscribeFailed == "Transcription failed. Check your API key and connection."

MsgStopFailed == "Failed to stop recording or transcribe"

MsgStartFailed == "Failed to start recording. Is arecord installed?"

MsgNoGetUserMedia == "getUserMedia is not supported in this browser/context"

MsgMicFallback == "Failed to access microphone"

\* DOMException names getUserMedia / new MediaRecorder reject with
ErrorNames == {"NotAllowedError", "NotFoundError", "NotSupportedError",
               "NotReadableError", "AbortError"}

MimeTypes == {"audio/webm;codecs=opus", "audio/webm", "audio/ogg;codecs=opus"}

\* the runtimes drawn in behaviours of the state machine: one that supports
\* none of the three types and one that supports plain WebM
RunSupported == {{}, {"audio/webm"}}

VARIABLES
  backendKind,      \* "Local" or "Subprocess": which component is mounted
  hasMediaDevices,  \* navigator.mediaDevices.getUserMedia exists in this runtime
  supportedTypes,   \* the mime types MediaRecorder.isTypeSupported accepts
  isRecording,      \* useState
  isPaused,         \* useState (hook)
  isTranscribing,   \* useState
  recordingTime,    \* useState
  localError,       \* useState
  recordingError,   \* useState `error` of the hook
  clearTimers,      \* pending setTimeout(() => setLocalError(null), 5000)
  mediaRecorderRef, \* useRef: recorder id or 0
  recorders,        \* MediaRecorder objects: id -> [state, onstop, stopQueued]
  audioChunksRef,   \* useRef: sequence of blob sizes
  streamRef,        \* useRef: stream id or 0
  liveStreams,      \* MediaStreams whose tracks are live (device held)
  timerIntervalRef, \* useRef (hook): interval id or 0
  timerInterval,    \* useState (subprocess button): interval id or 0
  activeTimers,     \* intervals set and not cleared
  procRunning,      \* the external recorder process is running
  settings,         \* the stored STT settings
  transcriptions,   \* calls of onTranscription: how many, and the latest text
  errors,           \* calls of onError: how many, and the latest message
  successes,        \* calls of onSuccess: how many, and the latest seconds
  settingsReads,    \* number of get_stt_settings calls
  transcribeCalls,  \* number of transcribe_audio calls
  tempFiles,        \* audio files save_audio_temp_file wrote that are still on disk
  tasks,            \* suspended async handler invocations
  ops,              \* history: number of user operations so far
  savedWhileRecording, \* history: the settings were saved while recording, since the latest start that succeeded
  ticks,            \* history: interval firings since the elapsed time was last set to 0
  last,             \* history: the step just taken
  mounted,          \* the settings form (SttSettings) is mounted
  onChangeGiven,    \* form prop: an onChange callback was passed
  loading,          \* form useState
  formSettings,     \* form useState `settings`
  saving,           \* form useState
  hasChanges,       \* form useState
  parentSave,       \* what the latest onChange(hasChanges, handleSave) handed over
  formCalls,        \* the form's load and save calls in flight
  toast             \* the latest setToast argument

envVars == <<backendKind, hasMediaDevices, supportedTypes>>

hookVars == <<mediaRecorderRef, recorders, audioChunksRef, streamRef, liveStreams,
              timerIntervalRef>>

errVars == <<localError, recordingError, errors, clearTimers>>

logVars == <<transcriptions, successes, settingsReads, transcribeCalls>>

formVars == <<mounted, onChangeGiven, loading, formSettings, saving, hasChanges,
              parentSave, formCalls, toast>>

vars == <<backendKind, hasMediaDevices, supportedTypes, isRecording, isPaused, isTranscribing, recordingTime,
          localError, recordingError, clearTimers, mediaRecorderRef, recorders,
          audioChunksRef, streamRef, liveStreams, timerIntervalRef, timerInterval,
          activeTimers, procRunning, settings, transcriptions, errors, successes,
          settingsReads, transcribeCalls, tempFiles, tasks, ops, ticks,
          savedWhileRecording, last, mounted, onChangeGiven, loading, formSettings,
          saving, hasChanges, parentSave, formCalls, toast>>

\* ---- helpers -------------------------------------------------------------
RECURSIVE Sum(_)
Sum(s) == IF s = <<>> THEN 0 ELSE Head(s) + Sum(Tail(s))

IsSpace(c) == c = " "

RECURSIVE TrimStart(_)
TrimStart(s) == IF s # <<>> /\ IsSpace(Head(s)) THEN TrimStart(Tail(s)) ELSE s

RECURSIVE TrimEnd(_)
TrimEnd(s) ==
  IF s # <<>> /\ IsSpace(s[Len(s)]) THEN TrimEnd(SubSeq(s, 1, Len(s) - 1)) ELSE s

\* a variant that leaves the text as it is, as if .trim() were not called
TrimNothing(s) == s

\* String.prototype.trim
Trim(s) == TrimEnd(TrimStart(s))

\* a variant with the test inverted
TruthyInverted(s) == s = <<>>

\* JavaScript truthiness of a string: '' is falsy
Truthy(s) == s # <<>>

\* a variant that tests for null only (settings.apiKey === null)
NoApiKeyNullOnly(k) == k = Null

\* !settings.apiKey
NoApiKey(k) == k = Null \/ k = ""

\* a fresh handle (stream, recorder, interval): the least id not in use
NewId(used) == CHOOSE n \in 1..(Cardinality(used) + 1) :
                 n \notin used /\ \A m \in 1..(n - 1) : m \in used

\* tasks is a bag: suspended invocations have no order among themselves
With(b, t) == b (+) SetToBag({t})

Without(b, t) == b (-) SetToBag({t})

Replace(b, t, u) == With(Without(b, t), u)

\* (cancelledAt and shown are history: the await a cancel request found the
\* invocation at, and the error that was displayed when it was made)
Task(kind, pc) == [kind |-> kind, pc |-> pc, rec |-> 0, clip |-> 0, time |-> 0,
                   key |-> Null, lang |-> Null, cancelledAt |-> "none",
                   shown |-> Null]

NoTask == Task("none", "none")

\* what is kept of the calls of a callback: their number and the latest
\* argument
NoLog(none) == [n |-> 0, latest |-> none]

Logged(log, x) == [n |-> log.n + 1, latest |-> x]

\* history: which step was just taken, on which task, with which input, and
\* how long the output logs were before it
Step(op, task, input) ==
  [op |-> op, task |-> task, input |-> input, calls |-> transcribeCalls,
   reads |-> settingsReads, nErr |-> errors.n, nTr |-> transcriptions.n]

\* history: what is kept of an attempt that ended in its catch block, which
\* uses neither the clip nor the elapsed time the invocation holds
Failed(t) == [t EXCEPT !.rec = 0, !.clip = 0, !.time = 0]

\* history: what a step that changes none of it found
Before == [isRecording |-> isRecording, recordingTime |-> recordingTime,
           activeTimers |-> activeTimers]

Quiet == [op |-> "Quiet", task |-> NoTask, input |-> Null, calls |-> 0, reads |-> 0,
          nErr |-> 0, nTr |-> 0]

\* recorders no reference can reach any more are dropped
Collect(recs, ref) ==
  LET keep == {r \in DOMAIN recs :
                 r = ref \/ recs[r].state # "inactive" \/ recs[r].stopQueued}
  IN  [r \in keep |-> recs[r]]

\* error instanceof Error ? error.message : fallback
CatchMessage(rej, fallback) == IF rej.isError THEN rej.message ELSE fallback

\* a cancel request marks the stop attempts it races with
MarkTask(t) ==
  IF t.kind = "stop" /\ t.cancelledAt = "none" THEN [t EXCEPT !.cancelledAt = t.pc] ELSE t

RECURSIVE MarkAll(_, _)
MarkAll(b, acc) ==
  IF b = EmptyBag THEN acc
  ELSE LET t == CHOOSE x \in BagToSet(b) : TRUE
       IN  MarkAll(Without(b, t), With(acc, MarkTask(t)))

MarkCancelled(ts) == MarkAll(ts, EmptyBag)

\* The state update of a handler followed by the render it causes.  The
\* Local button calls handleError(recordingError) while rendering whenever
\* recordingError is set and localError is not; handleError sets localError,
\* calls onError and schedules the 5 s auto-clear.
RenderLocalError(le, re, errs, ct) ==
  IF re # Null /\ le = Null
  THEN [le |-> re, errs |-> Logged(errs, re), ct |-> ct + 1]
  ELSE [le |-> le, errs |-> errs, ct |-> ct]

Commit(le, re, errs, ct) ==
  LET r == RenderLocalError(le, re, errs, ct)
  IN  /\ localError' = r.le
      /\ recordingError' = re
      /\ errors' = r.errs
      /\ clearTimers' = r.ct

\* handleError(message) followed by the render
HandleError(message) ==
  Commit(message, recordingError, Logged(errors, message), clearTimers + 1)

\* setLocalError(null) followed by the render
ClearLocalError == Commit(Null, recordingError, errors, clearTimers)

\* the useState initial value of the form's settings
DefaultSettings == [apiKey |-> Null, language |-> Null]

\* no save function has been handed to a parent
NoSave == [hasChanges |-> FALSE, settings |-> DefaultSettings]

Init ==
  /\ backendKind \in {"Local", "Subprocess"}
  /\ hasMediaDevices \in IF backendKind = "Local" THEN BOOLEAN ELSE {TRUE}
  /\ supportedTypes \in IF backendKind = "Local" /\ hasMediaDevices
                         THEN RunSupported ELSE {MimeTypes}
  /\ isRecording = FALSE
  /\ isPaused = FALSE
  /\ isTranscribing = FALSE
  /\ recordingTime = 0
  /\ localError = Null
  /\ recordingError = Null
  /\ clearTimers = 0
  /\ mediaRecorderRef = 0
  /\ recorders = <<>>
  /\ audioChunksRef = <<>>
  /\ streamRef = 0
  /\ liveStreams = {}
  /\ timerIntervalRef = 0
  /\ timerInterval = 0
  /\ activeTimers = {}
  /\ procRunning = FALSE
  /\ settings \in SettingsValues
  /\ transcriptions = NoLog(<<>>)
  /\ errors = NoLog(Null)
  /\ successes = NoLog(0)
  /\ settingsReads = 0
  /\ transcribeCalls = 0
  /\ tempFiles = 0
  /\ tasks = EmptyBag
  /\ ops = 0
  /\ ticks = 0
  /\ savedWhileRecording = FALSE
  /\ last = Quiet
  /\ mounted = FALSE
  /\ onChangeGiven = FALSE
  /\ loading = TRUE
  /\ formSettings = DefaultSettings
  /\ saving = FALSE
  /\ hasChanges = FALSE
  /\ parentSave = NoSave
  /\ formCalls = EmptyBag
  /\ toast = Null

\* the main button is clickable: the DOM disables it while transcribing
ButtonEnabled == ~(disabled \/ isTranscribing)

CanOp == ops < MaxOps


\* ==== Local capture: useAudioRecording + PushToTalkButton =================

MsgPermissionDenied ==
  "Microphone permission denied. Please allow microphone access in browser/system settings."

MsgNoMicrophone == "No microphone found. Please connect a microphone."

MsgNotSupported == "Microphone not supported in this context."

MsgMicBusy == "Microphone is already in use by another application."

\* what getUserMedia / new MediaRecorder can throw: a DOMException (an Error)
\* with a name and a message, or a value that is not an Error
MicRejections ==
  {[isError |-> TRUE, name |-> n, message |-> n] : n \in ErrorNames}
    \cup {[isError |-> FALSE, name |-> "", message |-> ""]}

\* the rejections drawn in behaviours of the state machine
RunMicRejections == {e \in MicRejections : e.name \in {"NotAllowedError", ""}}

\* a variant that has one message for a missing and for a busy microphone
StartErrorMessageShared(err) ==
  IF ~err.isError THEN MsgMicFallback
  ELSE IF err.name = "NotAllowedError" THEN MsgPermissionDenied
  ELSE IF err.name \in {"NotFoundError", "NotReadableError"} THEN MsgNoMicrophone
  ELSE IF err.name = "NotSupportedError" THEN MsgNotSupported
  ELSE err.message

\* the catch block of startRecording
StartErrorMessage(err) ==
  IF ~err.isError THEN MsgMicFallback
  ELSE IF err.name = "NotAllowedError" THEN MsgPermissionDenied
  ELSE IF err.name = "NotFoundError" THEN MsgNoMicrophone
  ELSE IF err.name = "NotSupportedError" THEN MsgNotSupported
  ELSE IF err.name = "NotReadableError" THEN MsgMicBusy
  ELSE err.message

\* a variant that asks for Opus in WebM without looking at what is supported
SelectMimeTypeOpusOnly(supported) == "audio/webm;codecs=opus"

\* the mime type startRecording asks for, given what isTypeSupported reports
SelectMimeType(supported) ==
  IF "audio/webm;codecs=opus" \in supported THEN "audio/webm;codecs=opus"
  ELSE IF "audio/webm" \in supported THEN "audio/webm"
  ELSE "audio/ogg;codecs=opus"

\* a variant in which a failed enumerateDevices ends the start in the catch
\* block of startRecording
LocalClickStartEnumerateFatal ==
  /\ backendKind = "Local"
  /\ ButtonEnabled
  /\ ~isRecording
  /\ CanOp
  /\ ops' = ops + 1
  /\ IF hasMediaDevices
     THEN \E enumerated \in BOOLEAN :
            IF enumerated
            THEN /\ tasks' = With(tasks, [Task("start", "getUserMedia") EXCEPT
                                            !.shown = localError])
                 /\ Commit(Null, Null, errors, clearTimers)
                 /\ last' = Step("ClickStart", NoTask, "enumerated")
            ELSE /\ tasks' = tasks
                 /\ Commit(Null, MsgMicFallback, errors, clearTimers)
                 /\ last' = Step("ClickStart", NoTask, "enumerateFailed")
     ELSE /\ tasks' = tasks
          /\ Commit(Null, StartErrorMessage(
                 [isError |-> TRUE, name |-> "Error", message |-> MsgNoGetUserMedia]),
               errors, clearTimers)
          /\ last' = Step("ClickStart", NoTask, "noMediaDevices")
  /\ UNCHANGED <<envVars, formVars, tempFiles, ticks, savedWhileRecording, isRecording, isPaused, isTranscribing, recordingTime,
                 hookVars, timerInterval, activeTimers, procRunning, settings, logVars>>

\* handleClick, branch `else`: setLocalError(null); await startRecording()
\* up to `await getUserMedia`.  Before it enumerateDevices is awaited inside
\* a try of its own: whether it resolves (enumerated) or rejects, the result
\* is only logged, so the step that resumes from it changes nothing and is
\* taken together with this one.
LocalClickStart ==
  /\ backendKind = "Local"
  /\ ButtonEnabled
  /\ ~isRecording
  /\ CanOp
  /\ ops' = ops + 1
  /\ IF hasMediaDevices
     THEN \E enumerated \in BOOLEAN :
            /\ tasks' = With(tasks, [Task("start", "getUserMedia") EXCEPT
                                       !.shown = localError])
            /\ Commit(Null, Null, errors, clearTimers)
            /\ last' = Step("ClickStart", NoTask,
                            IF enumerated THEN "enumerated" ELSE "enumerateFailed")
     ELSE /\ tasks' = tasks
          /\ Commit(Null, StartErrorMessage(
                 [isError |-> TRUE, name |-> "Error", message |-> MsgNoGetUserMedia]),
               errors, clearTimers)
          /\ last' = Step("ClickStart", NoTask, "noMediaDevices")
  /\ UNCHANGED <<envVars, formVars, tempFiles, ticks, savedWhileRecording, isRecording, isPaused, isTranscribing, recordingTime,
                 hookVars, timerInterval, activeTimers, procRunning, settings, logVars>>

\* getUserMedia resolves with a stream: the rest of the try block
GetUserMediaOk(t) ==
  /\ t.kind = "start" /\ t.pc = "getUserMedia"
  /\ LET s == NewId(liveStreams) IN
       LET mimeType == SelectMimeType(supportedTypes) IN
       IF mimeType \in supportedTypes
       THEN LET r == NewId(DOMAIN recorders)
                tm == NewId(activeTimers \cup {timerIntervalRef})
                recs == [x \in DOMAIN recorders \cup {r} |->
                           IF x = r
                           THEN [state |-> "recording", onstop |-> FALSE,
                                 stopQueued |-> FALSE]
                           ELSE recorders[x]]
            IN  /\ streamRef' = s
                /\ liveStreams' = liveStreams \cup {s}
                /\ mediaRecorderRef' = r
                /\ recorders' = Collect(recs, r)
                /\ audioChunksRef' = <<>>
                /\ isRecording' = TRUE
                /\ recordingTime' = 0
                /\ ticks' = 0
                /\ savedWhileRecording' = FALSE
                /\ timerIntervalRef' = tm
                /\ activeTimers' = activeTimers \cup {tm}
                /\ Commit(localError, recordingError, errors, clearTimers)
                /\ last' = Step("StartOk", t, Null)
       ELSE \* new MediaRecorder throws NotSupportedError; the catch block runs
            /\ streamRef' = s
            /\ liveStreams' = liveStreams \cup {s}
            /\ Commit(localError,
                      StartErrorMessage([isError |-> TRUE, name |-> "NotSupportedError",
                                         message |-> "NotSupportedError"]),
                      errors, clearTimers)
            /\ last' = Quiet
            /\ UNCHANGED <<mediaRecorderRef, recorders, audioChunksRef, isRecording,
                           recordingTime, ticks, savedWhileRecording, timerIntervalRef,
                           activeTimers>>
  /\ tasks' = Without(tasks, t)
  /\ UNCHANGED <<envVars, formVars, tempFiles, isPaused, isTranscribing, timerInterval, procRunning,
                 settings, logVars, ops>>

\* getUserMedia rejects: the catch block of startRecording
GetUserMediaFail(t) ==
  /\ t.kind = "start" /\ t.pc = "getUserMedia"
  /\ \E err \in RunMicRejections :
       /\ Commit(localError, StartErrorMessage(err), errors, clearTimers)
       /\ last' = Step("StartFail", NoTask, Before)
  /\ tasks' = Without(tasks, t)
  /\ UNCHANGED <<envVars, formVars, tempFiles, ticks, savedWhileRecording, isRecording, isPaused, isTranscribing, recordingTime,
                 hookVars, timerInterval, activeTimers, procRunning, settings,
                 logVars, ops>>

\* history: what a stop request that finds no active recorder leaves as it was
Pending == [invocations |-> BagCardinality(tasks), files |-> tempFiles,
            isTranscribing |-> isTranscribing]

\* a variant without the `!audioBlob` check: the null stopRecording resolved
\* with is taken on to the settings read
LocalClickStopUnchecked ==
  /\ backendKind = "Local"
  /\ ButtonEnabled
  /\ isRecording
  /\ CanOp
  /\ ops' = ops + 1
  /\ IF mediaRecorderRef = 0 \/ recorders[mediaRecorderRef].state = "inactive"
     THEN /\ ClearLocalError
          /\ isTranscribing' = TRUE
          /\ settingsReads' = settingsReads + 1
          /\ tasks' = With(tasks, [Task("stop", "awaitSettings") EXCEPT
                                     !.time = recordingTime])
          /\ last' = Step("ClickStop", NoTask, Pending)
          /\ UNCHANGED recorders
     ELSE /\ recorders' = [recorders EXCEPT ![mediaRecorderRef] =
                             [@ EXCEPT !.onstop = TRUE, !.state = "inactive",
                                       !.stopQueued = TRUE]]
          /\ tasks' = With(tasks, [Task("stop", "awaitStop") EXCEPT
                                     !.rec = mediaRecorderRef,
                                     !.time = recordingTime])
          /\ last' = Quiet
          /\ UNCHANGED <<errVars, isTranscribing, settingsReads>>
  /\ UNCHANGED <<envVars, formVars, tempFiles, ticks, savedWhileRecording, isRecording, isPaused, recordingTime,
                 mediaRecorderRef, audioChunksRef, streamRef, liveStreams,
                 timerIntervalRef, timerInterval, activeTimers, procRunning, settings,
                 transcriptions, successes, transcribeCalls>>

\* handleClick, branch `if (isRecording)`, up to `await stopRecording()`:
\* stopRecording resolves null at once when there is no active recorder,
\* otherwise it installs onstop and calls mediaRecorder.stop()
LocalClickStop ==
  /\ backendKind = "Local"
  /\ ButtonEnabled
  /\ isRecording
  /\ CanOp
  /\ ops' = ops + 1
  /\ IF mediaRecorderRef = 0 \/ recorders[mediaRecorderRef].state = "inactive"
     THEN /\ HandleError(MsgNoAudio)
          /\ last' = Step("ClickStop", NoTask, Pending)
          /\ UNCHANGED <<recorders, tasks>>
     ELSE /\ recorders' = [recorders EXCEPT ![mediaRecorderRef] =
                             [@ EXCEPT !.onstop = TRUE, !.state = "inactive",
                                       !.stopQueued = TRUE]]
          /\ tasks' = With(tasks, [Task("stop", "awaitStop") EXCEPT
                                     !.rec = mediaRecorderRef,
                                     !.time = recordingTime])
          /\ last' = Quiet
          /\ UNCHANGED errVars
  /\ UNCHANGED <<envVars, formVars, tempFiles, ticks, savedWhileRecording, isRecording, isPaused, isTranscribing, recordingTime,
                 mediaRecorderRef, audioChunksRef, streamRef, liveStreams,
                 timerIntervalRef, timerInterval, activeTimers, procRunning, settings,
                 logVars>>

\* The task MediaRecorder.stop() queued: dataavailable fires with the `size`
\* bytes the recorder encoded (the handler keeps a non-empty chunk), then
\* stop fires.  With an onstop handler the
\* blob is built, the hook cleans up and resolves, and handleClick continues
\* up to `await apiCall('get_stt_settings')`.
RecorderStopEvent(r) ==
  /\ r \in DOMAIN recorders
  /\ recorders[r].stopQueued
  /\ \E size \in ClipSizes :
     LET chunks == IF size > 0 THEN Append(audioChunksRef, size) ELSE audioChunksRef
         recs == [recorders EXCEPT ![r].stopQueued = FALSE]
     IN  /\ recorders' = Collect(recs, mediaRecorderRef)
         /\ IF recorders[r].onstop
            THEN \E t \in BagToSet(tasks) :
                   /\ t.kind = "stop" /\ t.pc = "awaitStop"
                   /\ t.rec = r
                   /\ liveStreams' = liveStreams \ {streamRef}
                   /\ streamRef' = 0
                   /\ activeTimers' = activeTimers \ {timerIntervalRef}
                   /\ timerIntervalRef' = 0
                   /\ isRecording' = FALSE
                   /\ isPaused' = FALSE
                   /\ audioChunksRef' = <<>>
                   \* audioBlob is a Blob object: `!audioBlob` is false
                   /\ isTranscribing' = TRUE
                   /\ ClearLocalError
                   /\ settingsReads' = settingsReads + 1
                   /\ tasks' = Replace(tasks, t, [t EXCEPT !.pc = "awaitSettings",
                                                            !.clip = Sum(chunks)])
                   /\ last' = Quiet
            ELSE /\ audioChunksRef' = chunks
                 /\ last' = Quiet
                 /\ UNCHANGED <<liveStreams, streamRef, activeTimers, timerIntervalRef,
                                isRecording, isPaused, isTranscribing, errVars,
                                settingsReads, tasks>>
  /\ UNCHANGED <<envVars, formVars, tempFiles, ticks, savedWhileRecording, recordingTime, mediaRecorderRef, timerInterval,
                 procRunning, settings, transcriptions, successes, transcribeCalls, ops>>


\* pauseRecording; when its condition is false the call does nothing
PauseRecording ==
  /\ backendKind = "Local"
  /\ CanOp
  /\ ops' = ops + 1
  /\ mediaRecorderRef # 0 /\ recorders[mediaRecorderRef].state = "recording"
  /\ recorders' = [recorders EXCEPT ![mediaRecorderRef].state = "paused"]
  /\ isPaused' = TRUE
  /\ activeTimers' = activeTimers \ {timerIntervalRef}
  /\ last' = Quiet
  /\ UNCHANGED <<envVars, formVars, tempFiles, ticks, savedWhileRecording, isRecording, isTranscribing, recordingTime, errVars,
                 mediaRecorderRef, audioChunksRef, streamRef, liveStreams,
                 timerIntervalRef, timerInterval, procRunning, settings, logVars, tasks>>

\* resumeRecording; when its condition is false the call does nothing
ResumeRecording ==
  /\ backendKind = "Local"
  /\ CanOp
  /\ ops' = ops + 1
  /\ mediaRecorderRef # 0 /\ recorders[mediaRecorderRef].state = "paused"
  /\ LET tm == NewId(activeTimers \cup {timerIntervalRef}) IN
       /\ recorders' = [recorders EXCEPT ![mediaRecorderRef].state = "recording"]
       /\ isPaused' = FALSE
       /\ timerIntervalRef' = tm
       /\ activeTimers' = activeTimers \cup {tm}
  /\ last' = Quiet
  /\ UNCHANGED <<envVars, formVars, tempFiles, ticks, savedWhileRecording, isRecording, isTranscribing, recordingTime, errVars,
                 mediaRecorderRef, audioChunksRef, streamRef, liveStreams,
                 timerInterval, procRunning, settings, logVars, tasks>>

\* handleCancel: cancelRecording(); setLocalError(null).  The Cancel button
\* is rendered only while isRecording.  MediaRecorder.stop() on an inactive
\* recorder is a no-op in current engines and throws InvalidStateError in
\* older ones; when it throws, nothing after it runs.
LocalCancel ==
  /\ backendKind = "Local"
  /\ isRecording
  /\ CanOp
  /\ ops' = ops + 1
  /\ tasks' = MarkCancelled(tasks)
  /\ IF mediaRecorderRef # 0
     THEN \E stopThrows \in BOOLEAN :
            LET rec == recorders[mediaRecorderRef] IN
            IF rec.state = "inactive" /\ stopThrows
            THEN /\ last' = Step("Cancel", NoTask, "threw")
                 /\ UNCHANGED <<recorders, liveStreams, streamRef, activeTimers,
                                timerIntervalRef, audioChunksRef, isRecording, isPaused,
                                recordingTime, ticks, errVars>>
            ELSE /\ recorders' =
                      IF rec.state = "inactive" THEN recorders
                      ELSE [recorders EXCEPT ![mediaRecorderRef] =
                              [@ EXCEPT !.state = "inactive", !.stopQueued = TRUE]]
                 /\ liveStreams' = liveStreams \ {streamRef}
                 /\ streamRef' = 0
                 /\ activeTimers' = activeTimers \ {timerIntervalRef}
                 /\ timerIntervalRef' = 0
                 /\ audioChunksRef' = <<>>
                 /\ isRecording' = FALSE
                 /\ isPaused' = FALSE
                 /\ recordingTime' = 0
                 /\ ticks' = 0
                 /\ ClearLocalError
                 /\ last' = Step("Cancel", NoTask, "ok")
     ELSE /\ ClearLocalError
          /\ last' = Step("Cancel", NoTask, "ok")
          /\ UNCHANGED <<recorders, liveStreams, streamRef, activeTimers,
                         timerIntervalRef, audioChunksRef, isRecording, isPaused,
                         recordingTime, ticks>>
  /\ UNCHANGED <<envVars, formVars, tempFiles, savedWhileRecording, isTranscribing, mediaRecorderRef, timerInterval,
                 procRunning, settings, logVars>>

\* a variant in which a firing adds two seconds
TickTwice(tm) ==
  /\ tm \in activeTimers
  /\ recordingTime < MaxTime
  /\ recordingTime' = recordingTime + 2
  /\ ticks' = ticks + 1
  /\ UNCHANGED savedWhileRecording
  /\ last' = Quiet
  /\ UNCHANGED <<envVars, formVars, tempFiles, isRecording, isPaused, isTranscribing, errVars, hookVars,
                 timerInterval, activeTimers, procRunning, settings, logVars, tasks, ops>>

\* an interval fires: setRecordingTime(prev => prev + 1)
Tick(tm) ==
  /\ tm \in activeTimers
  /\ recordingTime < MaxTime
  /\ recordingTime' = recordingTime + 1
  /\ ticks' = ticks + 1
  /\ UNCHANGED savedWhileRecording
  /\ last' = Quiet
  /\ UNCHANGED <<envVars, formVars, tempFiles, isRecording, isPaused, isTranscribing, errVars, hookVars,
                 timerInterval, activeTimers, procRunning, settings, logVars, tasks, ops>>

\* the 5 s timeout handleError scheduled fires: setLocalError(null)
ErrorClearTimeout ==
  /\ clearTimers > 0
  /\ recordingError # Null => errors.n < MaxErrors
  /\ Commit(Null, recordingError, errors, clearTimers - 1)
  /\ last' = Quiet
  /\ UNCHANGED <<envVars, formVars, tempFiles, ticks, savedWhileRecording, isRecording, isPaused, isTranscribing, recordingTime,
                 hookVars, timerInterval, activeTimers, procRunning, settings, logVars,
                 tasks, ops>>

\* save_stt_settings: a field that is None in the request is not written, so
\* the stored value stays
SaveSettings(stored, v) ==
  [apiKey |-> IF v.apiKey = Null THEN stored.apiKey ELSE v.apiKey,
   language |-> IF v.language = Null THEN stored.language ELSE v.language]

\* the settings form saves v (handleSave -> save_stt_settings), v being
\* another value than the stored one the form had loaded
ChangeSettings(v) ==
  /\ CanOp
  /\ v # settings
  /\ settings' = SaveSettings(settings, v)
  /\ ops' = ops + 1
  /\ last' = Quiet
  /\ savedWhileRecording' = (savedWhileRecording \/ isRecording)
  /\ UNCHANGED <<envVars, formVars, tempFiles, ticks, isRecording, isPaused, isTranscribing, recordingTime,
                 errVars, hookVars, timerInterval, activeTimers, procRunning, logVars,
                 tasks>>

\* ---- the transcription attempt of the Local button (handleClick) ---------

\* a variant that goes on with what the invocation held before the read
\* instead of the settings the read returned
LocalSettingsOkUnread(t) ==
  /\ backendKind = "Local"
  /\ t.kind = "stop" /\ t.pc = "awaitSettings"
  /\ LET u == t
     IN  /\ last' = Step("SettingsOk", u, settings)
         /\ IF NoApiKey(u.key)
            THEN /\ HandleError(MsgApiKey)
                 /\ isTranscribing' = FALSE
                 /\ tasks' = Without(tasks, t)
            ELSE /\ tasks' = Replace(tasks, t, [u EXCEPT !.pc = "awaitSave"])
                 /\ UNCHANGED <<errVars, isTranscribing>>
  /\ UNCHANGED <<envVars, formVars, tempFiles, ticks, savedWhileRecording, isRecording, isPaused, recordingTime, hookVars,
                 timerInterval, activeTimers, procRunning, settings, logVars, ops>>

\* get_stt_settings resolves: the apiKey check, then saveBlobToTempFile
LocalSettingsOk(t) ==
  /\ backendKind = "Local"
  /\ t.kind = "stop" /\ t.pc = "awaitSettings"
  /\ LET u == [t EXCEPT !.key = settings.apiKey, !.lang = settings.language]
     IN  /\ last' = Step("SettingsOk", u, settings)
         /\ IF NoApiKey(settings.apiKey)
            THEN /\ HandleError(MsgApiKey)
                 /\ isTranscribing' = FALSE
                 /\ tasks' = Without(tasks, t)
            ELSE /\ tasks' = Replace(tasks, t, [u EXCEPT !.pc = "awaitSave"])
                 /\ UNCHANGED <<errVars, isTranscribing>>
  /\ UNCHANGED <<envVars, formVars, tempFiles, ticks, savedWhileRecording, isRecording, isPaused, recordingTime, hookVars,
                 timerInterval, activeTimers, procRunning, settings, logVars, ops>>

\* saveBlobToTempFile resolves (save_audio_temp_file has written the clip
\* to a file and returned its path): transcribe_audio is called with the
\* path.  Neither the button nor transcribe_audio removes the file.
LocalSaveOk(t) ==
  /\ backendKind = "Local"
  /\ t.kind = "stop" /\ t.pc = "awaitSave"
  /\ tasks' = Replace(tasks, t, [t EXCEPT !.pc = "awaitTranscribe"])
  /\ transcribeCalls' = transcribeCalls + 1
  /\ tempFiles' = tempFiles + 1
  /\ last' = Quiet
  /\ UNCHANGED <<envVars, formVars, ticks, savedWhileRecording, isRecording, isPaused, isTranscribing, recordingTime,
                 errVars, hookVars, timerInterval, activeTimers, procRunning, settings,
                 transcriptions, successes, settingsReads, ops>>

\* a variant that drops a blank transcription without reporting it
LocalTranscribeOkSilent(t) ==
  /\ backendKind = "Local"
  /\ t.kind = "stop" /\ t.pc = "awaitTranscribe"
  /\ \E transcription \in Texts :
       /\ last' = Step("TranscribeOk", t, transcription)
       /\ IF Truthy(Trim(transcription))
          THEN /\ transcriptions' = Logged(transcriptions, transcription)
               /\ successes' = Logged(successes, t.time)
               /\ UNCHANGED errVars
          ELSE UNCHANGED <<errVars, transcriptions, successes>>
  /\ isTranscribing' = FALSE
  /\ tasks' = Without(tasks, t)
  /\ UNCHANGED <<envVars, formVars, tempFiles, ticks, savedWhileRecording, isRecording, isPaused, recordingTime, hookVars,
                 timerInterval, activeTimers, procRunning, settings, settingsReads,
                 transcribeCalls, ops>>

\* transcribe_audio resolves with text; finally: setIsTranscribing(false)
LocalTranscribeOk(t) ==
  /\ backendKind = "Local"
  /\ t.kind = "stop" /\ t.pc = "awaitTranscribe"
  /\ \E transcription \in Texts :
       /\ last' = Step("TranscribeOk", t, transcription)
       /\ IF Truthy(Trim(transcription))
          THEN /\ transcriptions' = Logged(transcriptions, transcription)
               /\ successes' = Logged(successes, t.time)
               /\ UNCHANGED errVars
          ELSE /\ HandleError(MsgEmpty)
               /\ UNCHANGED <<transcriptions, successes>>
  /\ isTranscribing' = FALSE
  /\ tasks' = Without(tasks, t)
  /\ UNCHANGED <<envVars, formVars, tempFiles, ticks, savedWhileRecording, isRecording, isPaused, recordingTime, hookVars,
                 timerInterval, activeTimers, procRunning, settings, settingsReads,
                 transcribeCalls, ops>>

\* a variant whose catch block reports the key the attempt holds
LocalAttemptFailEchoKey(t) ==
  /\ backendKind = "Local"
  /\ t.kind = "stop"
  /\ t.pc \in {"awaitSettings", "awaitSave", "awaitTranscribe"}
  /\ \E rej \in Rejections :
       /\ HandleError(IF t.key = Null THEN CatchMessage(rej, MsgTranscribeFailed)
                      ELSE t.key)
       /\ last' = Step("AttemptFail", Failed(t), rej)
  /\ isTranscribing' = FALSE
  /\ tasks' = Without(tasks, t)
  /\ UNCHANGED <<envVars, formVars, tempFiles, ticks, savedWhileRecording, isRecording, isPaused, recordingTime, hookVars,
                 timerInterval, activeTimers, procRunning, settings, logVars, ops>>

\* any of the three awaits rejects: catch, then finally
LocalAttemptFail(t) ==
  /\ backendKind = "Local"
  /\ t.kind = "stop"
  /\ t.pc \in {"awaitSettings", "awaitSave", "awaitTranscribe"}
  /\ \E rej \in Rejections :
       /\ HandleError(CatchMessage(rej, MsgTranscribeFailed))
       /\ last' = Step("AttemptFail", Failed(t), rej)
  /\ isTranscribing' = FALSE
  /\ tasks' = Without(tasks, t)
  /\ UNCHANGED <<envVars, formVars, tempFiles, ticks, savedWhileRecording, isRecording, isPaused, recordingTime, hookVars,
                 timerInterval, activeTimers, procRunning, settings, logVars, ops>>


\* ==== Subprocess capture: PushToTalkButton over the recorder commands =====

\* The recorder commands run in the host process.  Of the external recorder
\* only this is modelled: start_subprocess_recording spawns it,
\* stop_subprocess_recording ends it (force-killing it when it fails),
\* cancel_subprocess_recording kills it unless the kill itself fails.
BackendStart(running) == TRUE

BackendStop(running) == FALSE

BackendCancel(running, killed) == IF killed THEN FALSE ELSE running

\* handleClick -> startRecording up to `await invoke('start_subprocess_recording')`
SubClickStart ==
  /\ backendKind = "Subprocess"
  /\ ButtonEnabled
  /\ ~isRecording
  /\ CanOp
  /\ ops' = ops + 1
  /\ tasks' = With(tasks, [Task("start", "awaitStart") EXCEPT !.shown = localError])
  /\ last' = Step("ClickStart", NoTask, "invoke")
  /\ UNCHANGED <<envVars, formVars, tempFiles, ticks, savedWhileRecording, isRecording, isPaused, isTranscribing, recordingTime,
                 errVars, hookVars, timerInterval, activeTimers, procRunning, settings,
                 logVars>>

\* start_subprocess_recording resolves: the rest of the try block
SubStartOk(t) ==
  /\ backendKind = "Subprocess"
  /\ t.kind = "start" /\ t.pc = "awaitStart"
  /\ LET tm == NewId(activeTimers \cup {timerInterval}) IN
       /\ isRecording' = TRUE
       /\ recordingTime' = 0
       /\ ticks' = 0
       /\ savedWhileRecording' = FALSE
       /\ activeTimers' = activeTimers \cup {tm}
       /\ timerInterval' = tm
  /\ procRunning' = BackendStart(procRunning)
  /\ tasks' = Without(tasks, t)
  /\ last' = Step("StartOk", t, Null)
  /\ UNCHANGED <<envVars, formVars, tempFiles, isPaused, isTranscribing, errVars, hookVars, settings,
                 logVars, ops>>

\* start_subprocess_recording rejects: the catch block
SubStartFail(t) ==
  /\ backendKind = "Subprocess"
  /\ t.kind = "start" /\ t.pc = "awaitStart"
  /\ \E rej \in Rejections :
       /\ HandleError(CatchMessage(rej, MsgStartFailed))
       /\ last' = Step("StartFail", NoTask, Before)
  /\ tasks' = Without(tasks, t)
  /\ UNCHANGED <<envVars, formVars, tempFiles, ticks, savedWhileRecording, isRecording, isPaused, isTranscribing, recordingTime,
                 hookVars, timerInterval, activeTimers, procRunning, settings, logVars,
                 ops>>

\* handleClick -> stopRecording up to `await invoke('stop_subprocess_recording')`
SubClickStop ==
  /\ backendKind = "Subprocess"
  /\ ButtonEnabled
  /\ isRecording
  /\ CanOp
  /\ ops' = ops + 1
  /\ activeTimers' = activeTimers \ {timerInterval}
  /\ timerInterval' = 0
  /\ tasks' = With(tasks, [Task("stop", "awaitStop") EXCEPT !.time = recordingTime])
  /\ last' = Quiet
  /\ UNCHANGED <<envVars, formVars, tempFiles, ticks, savedWhileRecording, isRecording, isPaused, isTranscribing, recordingTime,
                 errVars, hookVars, procRunning, settings, logVars>>

\* stop_subprocess_recording resolves with the file path, which is all the
\* button learns of the clip.  Continues up to `await apiCall('get_stt_settings')`.
SubStopOk(t) ==
  /\ backendKind = "Subprocess"
  /\ t.kind = "stop" /\ t.pc = "awaitStop"
  /\ tasks' = Replace(tasks, t, [t EXCEPT !.pc = "awaitSettings"])
  /\ last' = Quiet
  /\ procRunning' = BackendStop(procRunning)
  /\ isRecording' = FALSE
  /\ isTranscribing' = TRUE
  /\ settingsReads' = settingsReads + 1
  /\ UNCHANGED <<envVars, formVars, tempFiles, ticks, savedWhileRecording, isPaused, recordingTime, errVars, hookVars, timerInterval,
                 activeTimers, settings, transcriptions, successes, transcribeCalls, ops>>

\* get_stt_settings resolves: the apiKey check, then transcribe_audio is called
SubSettingsOk(t) ==
  /\ backendKind = "Subprocess"
  /\ t.kind = "stop" /\ t.pc = "awaitSettings"
  /\ LET u == [t EXCEPT !.key = settings.apiKey, !.lang = settings.language]
     IN  /\ last' = Step("SettingsOk", u, settings)
         /\ IF NoApiKey(settings.apiKey)
            THEN /\ HandleError(MsgApiKey)
                 /\ isTranscribing' = FALSE
                 /\ tasks' = Without(tasks, t)
                 /\ UNCHANGED transcribeCalls
            ELSE /\ tasks' = Replace(tasks, t, [u EXCEPT !.pc = "awaitTranscribe"])
                 /\ transcribeCalls' = transcribeCalls + 1
                 /\ UNCHANGED <<errVars, isTranscribing>>
  /\ UNCHANGED <<envVars, formVars, tempFiles, ticks, savedWhileRecording, isRecording, isPaused, recordingTime, hookVars,
                 timerInterval, activeTimers, procRunning, settings, transcriptions,
                 successes, settingsReads, ops>>

\* transcribe_audio resolves with text; finally: setIsTranscribing(false)
SubTranscribeOk(t) ==
  /\ backendKind = "Subprocess"
  /\ t.kind = "stop" /\ t.pc = "awaitTranscribe"
  /\ \E transcription \in Texts :
       /\ last' = Step("TranscribeOk", t, transcription)
       /\ IF Truthy(Trim(transcription))
          THEN /\ transcriptions' = Logged(transcriptions, transcription)
               /\ successes' = Logged(successes, t.time)
               /\ UNCHANGED errVars
          ELSE /\ HandleError(MsgEmpty)
               /\ UNCHANGED <<transcriptions, successes>>
  /\ isTranscribing' = FALSE
  /\ tasks' = Without(tasks, t)
  /\ UNCHANGED <<envVars, formVars, tempFiles, ticks, savedWhileRecording, isRecording, isPaused, recordingTime, hookVars,
                 timerInterval, activeTimers, procRunning, settings, settingsReads,
                 transcribeCalls, ops>>

\* a variant without the finally block
SubAttemptFailNoFinally(t) ==
  /\ backendKind = "Subprocess"
  /\ t.kind = "stop"
  /\ t.pc \in {"awaitStop", "awaitSettings", "awaitTranscribe"}
  /\ \E rej \in Rejections :
       /\ HandleError(CatchMessage(rej, MsgStopFailed))
       /\ last' = Step("AttemptFail", Failed(t), rej)
  /\ procRunning' = IF t.pc = "awaitStop" THEN BackendStop(procRunning)
                    ELSE procRunning
  /\ tasks' = Without(tasks, t)
  /\ UNCHANGED <<envVars, formVars, tempFiles, ticks, savedWhileRecording, isRecording, isPaused, isTranscribing, recordingTime, hookVars,
                 timerInterval, activeTimers, settings, logVars, ops>>

\* stop_subprocess_recording, get_stt_settings or transcribe_audio rejects:
\* catch, then finally
SubAttemptFail(t) ==
  /\ backendKind = "Subprocess"
  /\ t.kind = "stop"
  /\ t.pc \in {"awaitStop", "awaitSettings", "awaitTranscribe"}
  /\ \E rej \in Rejections :
       /\ HandleError(CatchMessage(rej, MsgStopFailed))
       /\ last' = Step("AttemptFail", Failed(t), rej)
  /\ procRunning' = IF t.pc = "awaitStop" THEN BackendStop(procRunning)
                    ELSE procRunning
  /\ isTranscribing' = FALSE
  /\ tasks' = Without(tasks, t)
  /\ UNCHANGED <<envVars, formVars, tempFiles, ticks, savedWhileRecording, isRecording, isPaused, recordingTime, hookVars,
                 timerInterval, activeTimers, settings, logVars, ops>>

\* handleCancel -> cancelRecording up to `await invoke('cancel_subprocess_recording')`;
\* the Cancel button is rendered only while isRecording
SubCancel ==
  /\ backendKind = "Subprocess"
  /\ isRecording
  /\ CanOp
  /\ ops' = ops + 1
  /\ activeTimers' = activeTimers \ {timerInterval}
  /\ timerInterval' = 0
  /\ tasks' = With(MarkCancelled(tasks), Task("cancel", "awaitCancel"))
  /\ last' = Step("Cancel", NoTask, "ok")
  /\ UNCHANGED <<envVars, formVars, tempFiles, ticks, savedWhileRecording, isRecording, isPaused, isTranscribing, recordingTime,
                 errVars, hookVars, procRunning, settings, logVars>>

\* cancel_subprocess_recording resolves: the rest of the try block
SubCancelOk(t) ==
  /\ backendKind = "Subprocess"
  /\ t.kind = "cancel" /\ t.pc = "awaitCancel"
  /\ procRunning' = BackendCancel(procRunning, TRUE)
  /\ isRecording' = FALSE
  /\ recordingTime' = 0
  /\ ticks' = 0
  /\ ClearLocalError
  /\ tasks' = Without(tasks, t)
  /\ last' = Step("CancelOk", t, Null)
  /\ UNCHANGED <<envVars, formVars, tempFiles, savedWhileRecording, isPaused, isTranscribing, hookVars, timerInterval,
                 activeTimers, settings, logVars, ops>>

\* cancel_subprocess_recording rejects: the catch block only logs
SubCancelFail(t) ==
  /\ backendKind = "Subprocess"
  /\ t.kind = "cancel" /\ t.pc = "awaitCancel"
  /\ \E killed \in BOOLEAN :
       /\ procRunning' = BackendCancel(procRunning, killed)
       /\ last' = Step("CancelFail", t, killed)
  /\ tasks' = Without(tasks, t)
  /\ UNCHANGED <<envVars, formVars, tempFiles, ticks, savedWhileRecording, isRecording, isPaused, isTranscribing, recordingTime,
                 errVars, hookVars, timerInterval, activeTimers, settings, logVars, ops>>

\* ==== the settings form: SttSettings ======================================

\* what the user can type into the API key and the language input
FormKeys == {"", "sk-1", "sk-2"}

FormLanguages == {"", "en"}

MsgLoadFailed == "Failed to load speech-to-text settings"

MsgSaved == "Speech-to-text settings saved successfully"

MsgSaveFailed == "Failed to save settings"

\* x || null
OrNull(x) == IF x = "" THEN Null ELSE x

\* everything of the buttons a step of the form leaves alone
buttonVars == <<envVars, isRecording, isPaused, isTranscribing, recordingTime, errVars,
                hookVars, timerInterval, activeTimers, procRunning, logVars, tempFiles,
                tasks, ticks, savedWhileRecording>>

\* history: the state of the form a step found
FormBefore == [hasChanges |-> hasChanges, saving |-> saving, settings |-> formSettings]

\* useEffect(() => { if (onChange) onChange(hasChanges, handleSave) }, [hasChanges])
\* after the render with the new state: it runs only when hasChanges differs
\* from the previous render's, and the handleSave it hands over is the one
\* of that render, which closes over that render's settings
OnChangeEffect(newHasChanges, newSettings) ==
  parentSave' = IF onChangeGiven /\ newHasChanges # hasChanges
                THEN [hasChanges |-> newHasChanges, settings |-> newSettings]
                ELSE parentSave

\* apiCall('get_stt_settings') in flight (it sends no settings)
LoadCall == [kind |-> "load", settings |-> DefaultSettings]

\* the component mounts: both effects run; loadSettings up to its await
FormMount ==
  /\ ~mounted
  /\ mounted' = TRUE
  /\ \E given \in BOOLEAN :
       /\ onChangeGiven' = given
       /\ parentSave' = IF given
                        THEN [hasChanges |-> hasChanges, settings |-> formSettings]
                        ELSE parentSave
  /\ loading' = TRUE
  /\ formCalls' = With(formCalls, LoadCall)
  /\ last' = Step("FormMount", NoTask, FormBefore)
  /\ UNCHANGED <<buttonVars, settings, ops, formSettings, saving, hasChanges, toast>>

\* get_stt_settings resolves: setSettings(...), then finally
FormLoadOk(c) ==
  /\ c.kind = "load"
  /\ formSettings' = [apiKey |-> OrNull(settings.apiKey),
                      language |-> OrNull(settings.language)]
  /\ loading' = FALSE
  /\ formCalls' = Without(formCalls, c)
  /\ OnChangeEffect(hasChanges, formSettings')
  /\ last' = Step("FormLoadOk", NoTask, FormBefore)
  /\ UNCHANGED <<buttonVars, settings, ops, mounted, onChangeGiven, saving, hasChanges,
                 toast>>

\* get_stt_settings rejects: catch, then finally
FormLoadFail(c) ==
  /\ c.kind = "load"
  /\ toast' = [type |-> "error", message |-> MsgLoadFailed]
  /\ loading' = FALSE
  /\ formCalls' = Without(formCalls, c)
  /\ OnChangeEffect(hasChanges, formSettings)
  /\ last' = Step("FormLoadFail", NoTask, FormBefore)
  /\ UNCHANGED <<buttonVars, settings, ops, mounted, onChangeGiven, formSettings, saving,
                 hasChanges>>

\* updateSetting(key, value) from the change event of an input, which fires
\* when the value typed differs from the one shown; the inputs are rendered
\* once loading is over
UpdateSetting(key, value) ==
  /\ mounted /\ ~loading
  /\ CanOp
  /\ ops' = ops + 1
  /\ OrNull(value) # formSettings[key]
  /\ formSettings' = [formSettings EXCEPT ![key] = OrNull(value)]
  /\ hasChanges' = TRUE
  /\ OnChangeEffect(TRUE, formSettings')
  /\ last' = Step("UpdateSetting", NoTask, FormBefore)
  /\ UNCHANGED <<buttonVars, settings, mounted, onChangeGiven, loading, saving,
                 formCalls, toast>>

\* handleSave of a render up to its await: the request carries the settings
\* that render had
HandleSave(captured) ==
  /\ saving' = TRUE
  /\ formCalls' = With(formCalls, [kind |-> "save", settings |-> captured])
  /\ OnChangeEffect(hasChanges, formSettings)
  /\ UNCHANGED <<buttonVars, settings, mounted, onChangeGiven, loading, formSettings,
                 hasChanges, toast>>

\* standalone mode: the Save button, enabled when hasChanges and not saving,
\* calls the handleSave of the render on screen
ClickSave ==
  /\ mounted /\ ~loading /\ ~onChangeGiven
  /\ hasChanges /\ ~saving
  /\ CanOp
  /\ ops' = ops + 1
  /\ HandleSave(formSettings)
  /\ last' = Step("ClickSave", NoTask, FormBefore)

\* onChange mode: the parent calls the save function it was handed last
ParentSave ==
  /\ mounted /\ onChangeGiven
  /\ CanOp
  /\ ops' = ops + 1
  /\ HandleSave(parentSave.settings)
  /\ last' = Step("ParentSave", NoTask, FormBefore)

\* a variant that also resets hasChanges when the save failed
FormSaveFailResets(c) ==
  /\ c.kind = "save"
  /\ \E rej \in Rejections :
       toast' = [type |-> "error", message |-> CatchMessage(rej, MsgSaveFailed)]
  /\ hasChanges' = FALSE
  /\ saving' = FALSE
  /\ formCalls' = Without(formCalls, c)
  /\ OnChangeEffect(FALSE, formSettings)
  /\ last' = Step("FormSaveFail", NoTask, FormBefore)
  /\ UNCHANGED <<buttonVars, settings, ops, mounted, onChangeGiven, loading,
                 formSettings>>

\* save_stt_settings rejects: catch, then finally
FormSaveFail(c) ==
  /\ c.kind = "save"
  /\ \E rej \in Rejections :
       toast' = [type |-> "error", message |-> CatchMessage(rej, MsgSaveFailed)]
  /\ saving' = FALSE
  /\ formCalls' = Without(formCalls, c)
  /\ OnChangeEffect(hasChanges, formSettings)
  /\ last' = Step("FormSaveFail", NoTask, FormBefore)
  /\ UNCHANGED <<buttonVars, settings, ops, mounted, onChangeGiven, loading,
                 formSettings, hasChanges>>

\* save_stt_settings has stored the request and resolves: setHasChanges(false),
\* the toast, then finally
FormSaveOk(c) ==
  /\ c.kind = "save"
  /\ settings' = SaveSettings(settings, c.settings)
  /\ hasChanges' = FALSE
  /\ toast' = [type |-> "success", message |-> MsgSaved]
  /\ saving' = FALSE
  /\ formCalls' = Without(formCalls, c)
  /\ OnChangeEffect(FALSE, formSettings)
  /\ last' = Step("FormSaveOk", NoTask, FormBefore @@ [sent |-> c.settings])
  /\ UNCHANGED <<buttonVars, ops, mounted, onChangeGiven, loading, formSettings>>


\* ==== the system ==========================================================
Next ==
  \/ LocalClickStart
  \/ LocalClickStop
  \/ LocalCancel
  \/ \E t \in BagToSet(tasks) : GetUserMediaOk(t)
  \/ \E t \in BagToSet(tasks) : GetUserMediaFail(t)
  \/ \E r \in DOMAIN recorders : RecorderStopEvent(r)
  \/ \E t \in BagToSet(tasks) : LocalSettingsOk(t)
  \/ \E t \in BagToSet(tasks) : LocalSaveOk(t)
  \/ \E t \in BagToSet(tasks) : LocalTranscribeOk(t)
  \/ \E t \in BagToSet(tasks) : LocalAttemptFail(t)
  \/ SubClickStart
  \/ SubClickStop
  \/ SubCancel
  \/ \E t \in BagToSet(tasks) : SubStartOk(t)
  \/ \E t \in BagToSet(tasks) : SubStartFail(t)
  \/ \E t \in BagToSet(tasks) : SubStopOk(t)
  \/ \E t \in BagToSet(tasks) : SubSettingsOk(t)
  \/ \E t \in BagToSet(tasks) : SubTranscribeOk(t)
  \/ \E t \in BagToSet(tasks) : SubAttemptFail(t)
  \/ \E t \in BagToSet(tasks) : SubCancelOk(t)
  \/ \E t \in BagToSet(tasks) : SubCancelFail(t)
  \/ \E tm \in activeTimers : Tick(tm)
  \/ ErrorClearTimeout
  \/ \E v \in SettingsValues : ChangeSettings(v)

Spec == Init /\ [][Next]_vars

\* The buttons never call pauseRecording / resumeRecording; a caller of the
\* hook may.  The hook under the Local button, with a caller that also
\* pauses and resumes:
InitHook == Init /\ backendKind = "Local"

NextHook ==
  \/ LocalClickStart
  \/ LocalClickStop
  \/ LocalCancel
  \/ PauseRecording
  \/ ResumeRecording
  \/ \E t \in BagToSet(tasks) : GetUserMediaOk(t)
  \/ \E t \in BagToSet(tasks) : GetUserMediaFail(t)
  \/ \E r \in DOMAIN recorders : RecorderStopEvent(r)
  \/ \E t \in BagToSet(tasks) : LocalSettingsOk(t)
  \/ \E t \in BagToSet(tasks) : LocalSaveOk(t)
  \/ \E t \in BagToSet(tasks) : LocalTranscribeOk(t)
  \/ \E t \in BagToSet(tasks) : LocalAttemptFail(t)
  \/ \E tm \in activeTimers : Tick(tm)
  \/ ErrorClearTimeout
  \/ \E v \in SettingsValues : ChangeSettings(v)

SpecHook == InitHook /\ [][NextHook]_vars

\* The settings form on its own page, no button in use:
InitForm == Init /\ backendKind = "Subprocess"

NextForm ==
  \/ FormMount
  \/ \E c \in BagToSet(formCalls) : FormLoadOk(c)
  \/ \E c \in BagToSet(formCalls) : FormLoadFail(c)
  \/ \E value \in FormKeys : UpdateSetting("apiKey", value)
  \/ \E value \in FormLanguages : UpdateSetting("language", value)
  \/ ClickSave
  \/ ParentSave
  \/ \E c \in BagToSet(formCalls) : FormSaveOk(c)
  \/ \E c \in BagToSet(formCalls) : FormSaveFail(c)

SpecForm == InitForm /\ [][NextForm]_vars


\* ==== properties ==========================================================

\* a text with nothing but whitespace in it
IsBlank(text) == \A n \in DOMAIN text : text[n] = " "

\* a settings value without a usable key
KeyMissing(v) == v.apiKey \in {Null, ""}

StopTasks == {t \in BagToSet(tasks) : t.kind = "stop"}

StartTasks == {t \in BagToSet(tasks) : t.kind = "start"}

\* the clip of the attempt has been handed on by stop
HandedOn(t) == t.pc \in {"awaitSettings", "awaitSave", "awaitTranscribe"}

\* the step just taken emitted nothing
NoEvent == errors.n = last.nErr /\ transcriptions.n = last.nTr

\* the step just taken called onError once, with message m, and nothing else
OnlyError(m) ==
  /\ errors.n = last.nErr + 1
  /\ errors.latest = m
  /\ transcriptions.n = last.nTr

\* C1: when a start followed by a stop yields a non-empty clip, a key and a
\* non-blank text, the attempt ends not transcribing with onTranscription
\* called with that very text; and when start and stop were the only
\* operations of the run, the button ends idle with exactly that one
\* onTranscription event and no onError event.
C1_StartStopTranscribes ==
  (last.op = "TranscribeOk" /\ ~IsBlank(last.input) /\ last.task.clip > 0) =>
     /\ ~isTranscribing
     /\ transcriptions.n = last.nTr + 1
     /\ transcriptions.latest = last.input
     /\ errors.n = last.nErr
     /\ ops = 2 => /\ ~isRecording
                   /\ transcriptions = Logged(NoLog(<<>>), last.input)
                   /\ errors.n = 0
                   /\ transcribeCalls = 1

C1_Witness ==
  /\ backendKind = "Local"
  /\ last.op = "TranscribeOk" /\ ~IsBlank(last.input) /\ last.task.clip > 0
  /\ last.task.key = "sk-1"
  /\ ops = 2
  /\ transcriptions = Logged(NoLog(<<>>), <<" ", "o", "k">>)


\* C2: a stop attempt that a cancel overtook while the backend was still
\* finalizing the clip never gets its clip handed on (no settings read, no
\* transcription call), and when it ends it has emitted neither
\* onTranscription nor onError.  Stated for the Local button, whose
\* behaviour does not depend on how the recorder commands answer.
C2_CancelDuringStop ==
  backendKind = "Local" =>
    /\ \A t \in StopTasks : t.cancelledAt = "awaitStop" => ~HandedOn(t)
    /\ (last.op \in {"SettingsOk", "TranscribeOk", "AttemptFail"}
          /\ last.task.cancelledAt = "awaitStop") => NoEvent

\* C3: when a cancel arrived while the transcription call of an attempt was
\* in flight, the resolution of that call emits neither onTranscription nor
\* onError and leaves the button idle.  Stated for the Local button, whose
\* behaviour does not depend on how the recorder commands answer.
C3_CancelDuringTranscribe ==
  (backendKind = "Local"
     /\ last.op \in {"TranscribeOk", "AttemptFail"}
     /\ last.task.cancelledAt = "awaitTranscribe") =>
       /\ NoEvent
       /\ ~isTranscribing
       /\ localError = Null

\* whether a start is in progress or a session is active
Busy == isRecording \/ isTranscribing \/ StartTasks # {}

\* C4: a start request made while the session is recording, paused or
\* transcribing, or while an earlier start has not resolved, is rejected and
\* changes nothing: no capture is started, no ticker is created, the elapsed
\* time is not reset and the state is unchanged.
C4_StartRejectedWhileBusy ==
  [][(Busy /\ ops' = ops + 1 /\ last'.op = "ClickStart") =>
       UNCHANGED <<isRecording, isPaused, isTranscribing, recordingTime, errVars,
                   hookVars, timerInterval, activeTimers, procRunning, settings,
                   logVars, tasks>>]_vars

\* C5: a stop whose backend produced a zero-length clip never goes on to the
\* settings read or the transcription call.  Stated for the Local button,
\* whose clip is built by the hook from the chunks it buffered.
C5_EmptyClipNotTranscribed ==
  backendKind = "Local" => \A t \in StopTasks : HandedOn(t) => t.clip > 0

\* C6: when the settings read at stop returns no apiKey (null or empty), the
\* missing-credentials message is reported through onError, no transcription
\* call is made, onTranscription is not called and the session leaves
\* Transcribing.
C6_MissingKey ==
  (last.op = "SettingsOk" /\ KeyMissing(last.input)) =>
     /\ OnlyError(MsgApiKey)
     /\ transcribeCalls = last.calls
     /\ ~isTranscribing
     /\ \A t \in StopTasks : t.pc = "awaitTranscribe" => ~KeyMissing([apiKey |-> t.key])

C6_Witness ==
  /\ backendKind = "Local"
  /\ last.op = "SettingsOk" /\ last.input.apiKey = ""
  /\ errors = Logged(NoLog(Null), MsgApiKey)
  /\ transcribeCalls = 0

\* C7: when the transcription call succeeds with text that is blank, onError
\* is called with the empty-result message, onTranscription is not called and
\* no success is reported.
C7_BlankText ==
  (last.op = "TranscribeOk" /\ IsBlank(last.input)) =>
     /\ OnlyError(MsgEmpty)
     /\ successes.n = transcriptions.n   \* onSuccess goes with onTranscription
     /\ localError = MsgEmpty

C7_Witness ==
  /\ backendKind = "Local"
  /\ last.op = "TranscribeOk" /\ last.input = <<" ">>
  /\ errors = Logged(NoLog(Null), MsgEmpty)
  /\ transcriptions.n = 0

\* the capture resource is held: a live media stream or the recorder process
BackendHeld == liveStreams # {} \/ procRunning

\* a cancel has just run to its end (Local: the click handler; Subprocess:
\* the continuation after cancel_subprocess_recording resolved)
CancelSucceeded ==
  \/ (backendKind = "Local" /\ last.op = "Cancel" /\ last.input = "ok")
  \/ last.op = "CancelOk"

\* C8: a cancel made from Recording or Paused with no stop in flight, whose
\* backend cancel succeeds, stops the ticker, releases the backend, discards
\* the buffered clip, resets the elapsed time and leaves the session idle,
\* without any onError or onTranscription event.  Stated for the Local
\* button, whose behaviour does not depend on how the recorder commands answer.
C8_CancelFromRecording ==
  (backendKind = "Local" /\ CancelSucceeded /\ StopTasks = {}) =>
       /\ activeTimers = {}
       /\ ~BackendHeld
       /\ audioChunksRef = <<>>
       /\ recordingTime = 0
       /\ ~isRecording /\ ~isPaused
       /\ NoEvent

\* a cancel has just ended, whether or not the backend's cancel worked
CancelEnded == last.op \in {"CancelOk", "CancelFail"}

\* C9: every cancel leaves the session not recording and emits no onError,
\* also when the backend's cancel operation fails.  Stated for the
\* Subprocess button, whose cancel awaits an operation of the backend.
C9_CancelAlwaysIdle ==
  (backendKind = "Subprocess" /\ CancelEnded) =>
     /\ ~isRecording
     /\ errors.n = last.nErr

\* C10: whenever the session is not recording (idle, paused, transcribing or
\* in error) no elapsed-time ticker is active.  Stated for the Local button,
\* whose behaviour does not depend on how the recorder commands answer.
C10_NoTickerUnlessRecording ==
  (backendKind = "Local" /\ (~isRecording \/ isPaused \/ isTranscribing)) =>
     activeTimers = {}

\* C11: while a session records, the elapsed time shown is the number of
\* interval firings since the start that began it (so a start counts from 0
\* again and a stop after N firings finds N), and the success message of an
\* attempt carries the elapsed time its stop found.
C11_ElapsedIsTicks ==
  /\ isRecording => recordingTime = ticks
  /\ (last.op = "TranscribeOk" /\ successes.n = last.nTr + 1) =>
        successes.latest = last.task.time

C11_Witness ==
  /\ backendKind = "Local"
  /\ last.op = "TranscribeOk"
  /\ successes = Logged(NoLog(0), 1)
  /\ ticks = 1
  /\ ops = 2

\* the transcription attempts in flight: stop invocations that hold a clip
\* and have not ended
AttemptsInFlight ==
  BagCardinality([t \in {x \in StopTasks : HandedOn(x)} |-> tasks[t]])

\* C12: at most one transcription attempt is in flight at any time.  Stated
\* for the Local button, whose behaviour does not depend on how the recorder
\* commands answer a second stop.
C12_OneAttemptInFlight ==
  backendKind = "Local" => AttemptsInFlight <= 1

\* C13: the input device is held by at most one capture at a time, and
\* once the session is not recording and no handler is pending (after a
\* stop, a cancel or a failed start) no device handle is held.  Stated for
\* the Local button, which acquires the device itself.
C13_DeviceReleased ==
  backendKind = "Local" =>
    /\ Cardinality(liveStreams) <= 1
    /\ (~isRecording /\ tasks = EmptyBag) => liveStreams = {}

\* C14: when the backend fails to finalize the clip at stop, the failure is
\* reported through onError, no settings read and no transcription call is
\* made for the attempt, and the session is no longer recording.  Stated for
\* the Subprocess button, whose stop awaits an operation of the backend.
C14_StopFailureLeavesRecording ==
  (backendKind = "Subprocess" /\ last.op = "AttemptFail"
     /\ last.task.pc = "awaitStop") =>
       /\ errors.n = last.nErr + 1
       /\ transcriptions.n = last.nTr
       /\ transcribeCalls = last.calls
       /\ settingsReads = last.reads
       /\ ~isRecording

Fallback == IF backendKind = "Local" THEN MsgTranscribeFailed ELSE MsgStopFailed

\* C16: the message passed to onError for a rejected transcription call
\* tells the failure kinds apart: it is neither the missing-credentials nor
\* the empty-transcription message, and no rejection of another kind (401
\* against connection failure) would have been reported with the same
\* message.
C16_FailureMessagesDistinct ==
  (last.op = "AttemptFail" /\ last.task.pc = "awaitTranscribe") =>
     /\ errors.latest \notin {MsgApiKey, MsgEmpty}
     /\ \A r \in Rejections :
          r.message # last.input.message => CatchMessage(r, Fallback) # errors.latest

\* C17: no failure escapes a start, stop or cancel as a raised exception: a
\* cancel never ends by throwing, and a rejected stop, settings read or
\* transcription call ends in an error with a description.
C17_NoExceptionEscapes ==
  /\ (last.op = "Cancel" => last.input # "threw")
  /\ (last.op = "AttemptFail" => (errors.n > last.nErr /\ errors.latest # Null))

\* C18: a start that fails (getUserMedia rejects: no device, permission
\* denied; the recorder process cannot be spawned) does not enter Recording,
\* starts no ticker, does not advance the elapsed time, and its failure is
\* the error shown and the one reported through onError.
C18_FailedStart ==
  last.op = "StartFail" =>
     /\ isRecording = last.input.isRecording
     /\ activeTimers = last.input.activeTimers
     /\ recordingTime = last.input.recordingTime
     /\ localError # Null
     /\ errors.n = last.nErr + 1
     /\ errors.latest = localError

\* C19: a start made while an error is displayed clears it: when the start
\* has succeeded the session is recording, the elapsed time is 0 and the
\* error of the previous session is no longer set.
C19_StartClearsError ==
  (last.op = "StartOk" /\ last.task.shown # Null) =>
     /\ isRecording
     /\ recordingTime = 0
     /\ localError # last.task.shown

\* C20: the clip is discarded when the transcription attempt is over: when
\* an attempt of the Local button has just ended, with success or failure,
\* and the button is idle again (not recording, no handler in flight), no
\* captured chunk is held and no temporary audio file is left.
C20_ClipDiscarded ==
  (/\ backendKind = "Local"
   /\ last.op \in {"TranscribeOk", "AttemptFail"}
   /\ ~isRecording /\ ~isTranscribing /\ tasks = EmptyBag) =>
     /\ audioChunksRef = <<>>
     /\ tempFiles = 0

\* the button is idle: not recording, not transcribing, no handler in flight
Idle == ~isRecording /\ ~isTranscribing /\ tasks = EmptyBag

\* C21: the elapsed time is reset on every return to idle: when a
\* transcription has just been delivered, or a cancel has just finished, and
\* the button is idle, the elapsed time is 0.
C21_ElapsedResetOnIdle ==
  (/\ Idle
   /\ \/ last.op = "TranscribeOk" /\ transcriptions.n = last.nTr + 1
      \/ last.op = "CancelOk"
      \/ last.op = "Cancel" /\ last.input = "ok") =>
     recordingTime = 0

\* everything the try block of the hook's startRecording can throw
StartFailures ==
  MicRejections \cup {[isError |-> TRUE, name |-> "Error", message |-> MsgNoGetUserMedia]}

\* permission denied, device not found, unsupported, device busy
FourKinds == {"NotAllowedError", "NotFoundError", "NotSupportedError", "NotReadableError"}

C24_EnumerationNotRequired ==
  (/\ backendKind = "Local" /\ last.op = "ClickStart"
   /\ last.input \in {"enumerated", "enumerateFailed"}) =>
     /\ \E t \in StartTasks : t.pc = "getUserMedia"
     /\ recordingError = Null /\ localError = Null
     /\ errors.n = last.nErr

C24_Witness ==
  /\ backendKind = "Local" /\ last.op = "ClickStart"
  /\ last.input = "enumerateFailed"
  /\ \E t \in StartTasks : t.pc = "getUserMedia"
  /\ ~isRecording

\* C25: settings are saved and loaded correctly: when a save of the form's
\* Save button has just succeeded, what get_stt_settings returns, as the
\* form loads it, is the value that was saved, also when it saved no apiKey
\* or no language over one that had been stored.
C25_SaveThenLoad ==
  (last.op = "FormSaveOk" /\ ~onChangeGiven) =>
     /\ OrNull(settings.apiKey) = last.input.sent.apiKey
     /\ OrNull(settings.language) = last.input.sent.language

\* the key values that are a credential
SecretKeys == {k \in Keys : ~NoApiKey(k)}

\* the texts the step just taken wrote to the console and passed to onError:
\* the message of handleError and the rejection the catch block of an
\* attempt logs (the message of handleSuccess is built from the elapsed
\* seconds alone)
Diagnostics ==
  {errors.latest} \cup (IF last.op = "AttemptFail" THEN {last.input.message} ELSE {})

\* C26: the API key never appears in diagnostic output: whatever key the
\* settings hold, no message passed to onError and no logged rejection is
\* the key (a message is one value here, so to contain the key
\* is to be it).
C26_KeyNotInDiagnostics == Diagnostics \cap SecretKeys = {}

C26_Witness ==
  /\ backendKind = "Local" /\ last.op = "AttemptFail"
  /\ last.task.pc = "awaitTranscribe" /\ last.task.key \in SecretKeys
  /\ errors.n = last.nErr + 1

\* C27: pause stops the ticker and freezes the elapsed time: while the hook
\* is paused no interval is running, so the elapsed time cannot advance
\* until resume starts the one ticker again.
C27_PausedHasNoTicker ==
  (backendKind = "Local" /\ isRecording /\ isPaused) => activeTimers = {}

\* the models the settings form offers
Models == {"voxtral-mini-latest", "voxtral-latest"}

\* the arguments the buttons call transcribe_audio with (the path stands
\* for the clip of the attempt)
TranscriptionRequest(t) ==
  [audioPath |-> t.rec, apiKey |-> t.key, language |-> t.lang]

\* the `model` part of the form transcribe_with_mistral posts
FormModel(request) == "voxtral-mini-latest"

\* C28: the request of an attempt is built from the settings read of that
\* attempt, and the model configured in the settings is the model the call
\* is made with: for every attempt whose call is in flight the request
\* carries the key and language the attempt read, and whichever model the
\* user has selected, that is the model posted.
C28_RequestFromSettings ==
  \A t \in StopTasks :
     t.pc = "awaitTranscribe" =>
        /\ TranscriptionRequest(t).apiKey = t.key /\ ~NoApiKey(t.key)
        /\ TranscriptionRequest(t).language = t.lang
        /\ \A selected \in Models : FormModel(TranscriptionRequest(t)) = selected

\* C29: the encoding is chosen by preference: whatever the runtime supports,
\* a start of the Local button asks for Opus in WebM when that is supported,
\* otherwise for plain WebM when that is supported; the type asked for is
\* unsupported, and the start fails, only if neither is available; and a
\* recorder exists only for a type the runtime supports.
C29_MimeTypeByPreference ==
  /\ (backendKind = "Local" /\ last.op \in {"ClickStart", "StartOk"}) =>
       \A supported \in SUBSET MimeTypes :
          /\ "audio/webm;codecs=opus" \in supported =>
                SelectMimeType(supported) = "audio/webm;codecs=opus"
          /\ ("audio/webm;codecs=opus" \notin supported /\ "audio/webm" \in supported) =>
                SelectMimeType(supported) = "audio/webm"
          /\ SelectMimeType(supported) \notin supported =>
                supported \cap {"audio/webm;codecs=opus", "audio/webm"} = {}
  /\ (backendKind = "Local" /\ recorders # <<>>) =>
        SelectMimeType(supportedTypes) \in supportedTypes

C29_Witness ==
  /\ backendKind = "Local" /\ last.op = "StartOk"
  /\ supportedTypes = {"audio/webm"}
  /\ mediaRecorderRef # 0 /\ recorders[mediaRecorderRef].state = "recording"

\* the step just taken ended a stop that no cancel had marked
StopEnded ==
  /\ \/ last.op \in {"TranscribeOk", "AttemptFail"}
     \/ last.op = "SettingsOk" /\ NoApiKey(last.task.key)
  /\ last.task.cancelledAt = "none"

\* C30: every stop that is not cancelled produces exactly one outcome event:
\* the step that ends it calls either onTranscription, with a text that is
\* not blank, or onError, never both and never neither; the step that goes
\* on from the settings read to the transcription call reports nothing.
C30_OneOutcomePerStop ==
  /\ StopEnded =>
       /\ (errors.n - last.nErr) + (transcriptions.n - last.nTr) = 1
       /\ transcriptions.n > last.nTr => ~IsBlank(transcriptions.latest)
  /\ (last.op = "SettingsOk" /\ ~NoApiKey(last.task.key)) =>
       (errors.n = last.nErr /\ transcriptions.n = last.nTr)

C30_Witness ==
  /\ StopEnded /\ last.op = "TranscribeOk" /\ IsBlank(last.input)
  /\ errors.n = last.nErr + 1 /\ errors.latest = MsgEmpty
  /\ transcriptions.n = last.nTr

\* C31: the session is in at most one phase: it is never recording and
\* transcribing at once, whatever the interleaving of clicks with pending
\* start, stop and transcription calls.
C31_OnePhaseAtATime == ~(isRecording /\ isTranscribing)

\* C33: at most one elapsed-time ticker exists at any time, also when a start
\* is requested again before an earlier start has finished.
C33_OneTicker == Cardinality(activeTimers) <= 1

\* the step just taken ended a transcription attempt: the transcription call
\* resolved or a call of the attempt rejected, or the settings read returned
\* no key
AttemptEnded ==
  \/ last.op \in {"TranscribeOk", "AttemptFail"}
  \/ last.op = "SettingsOk" /\ NoApiKey(last.task.key)

\* C32: the session always leaves Transcribing: the step in which the
\* attempt ends (text, blank text, a failure, a missing key) leaves
\* isTranscribing false, and while isTranscribing is true an attempt is
\* still in flight whose end will clear it, so the button is never left
\* disabled with nothing pending.
C32_TranscribingEnds ==
  /\ AttemptEnded => ~isTranscribing
  /\ isTranscribing => \E t \in StopTasks : HandedOn(t)

C32_Witness ==
  /\ backendKind = "Subprocess"
  /\ last.op = "AttemptFail" /\ last.task.pc = "awaitTranscribe"
  /\ ~isTranscribing /\ ButtonEnabled
  /\ tasks = EmptyBag

\* the startRecording calls that have not finished
StartsPending == BagCardinality([t \in StartTasks |-> tasks[t]])

\* C34: a failed start of the Local button is reported to onError once:
\* while the recording error stays set, a step in which no start is made and
\* no start ends (the displayed error is auto-cleared after 5 seconds, or
\* cleared by another action) does not call onError with it again.
C34_FailedStartReportedOnce ==
  [][(/\ backendKind = "Local"
      /\ recordingError # Null /\ recordingError' = recordingError
      /\ last'.op # "ClickStart" /\ StartsPending' = StartsPending) =>
        ~(errors'.n > errors.n /\ errors'.latest = recordingError)]_vars

\* C35: a stop request made when no capture is active (the recorder is
\* absent or already inactive) yields no clip and leads to no settings read,
\* no temp-file write and no transcription call: the request reports that no
\* audio was captured and ends there, leaving no invocation pending and the
\* session not more transcribing than it was.
C35_StopWithoutCapture ==
  (backendKind = "Local" /\ last.op = "ClickStop") =>
     /\ OnlyError(MsgNoAudio)
     /\ settingsReads = last.reads
     /\ transcribeCalls = last.calls
     /\ tempFiles = last.input.files
     /\ BagCardinality(tasks) = last.input.invocations
     /\ isTranscribing = last.input.isTranscribing

C35_Witness ==
  /\ backendKind = "Local" /\ last.op = "ClickStop"
  /\ mediaRecorderRef # 0 /\ recorders[mediaRecorderRef].state = "inactive"
  /\ errors.latest = MsgNoAudio /\ errors.n = last.nErr + 1
  /\ ops = 3

\* C36: in the settings form used with an onChange callback, the save
\* function most recently handed to the parent persists the settings as
\* currently edited: when the parent, told of changes, has just invoked it,
\* the settings it sends to save_stt_settings are the ones the form shows.
C36_ParentSavesLatest ==
  (last.op = "ParentSave" /\ parentSave.hasChanges) =>
     /\ parentSave.settings = formSettings
     /\ \E c \in BagToSet(formCalls) : c.kind = "save" /\ c.settings = formSettings

\* the steps of the settings form
FormOps == {"FormMount", "FormLoadOk", "FormLoadFail", "UpdateSetting", "ClickSave",
            "ParentSave", "FormSaveOk", "FormSaveFail"}

\* C37: in the settings form hasChanges is false after loading, is true
\* after any field edit, goes back to false only in the step of a save that
\* succeeded and is after a failed save what it was before (so stays true);
\* saving is false again after every save attempt.
C37_HasChangesTracksEdits ==
  /\ last.op \in {"FormLoadOk", "FormLoadFail"} => (~hasChanges /\ ~loading)
  /\ last.op = "UpdateSetting" => hasChanges
  /\ last.op = "FormSaveOk" => (~hasChanges /\ ~saving)
  /\ last.op = "FormSaveFail" => (hasChanges = last.input.hasChanges /\ ~saving)
  /\ (last.op \in FormOps /\ last.input.hasChanges /\ ~hasChanges) =>
        last.op = "FormSaveOk"

C37_Witness ==
  /\ last.op = "FormSaveFail" /\ last.input.hasChanges /\ last.input.saving
  /\ hasChanges /\ ~saving
  /\ formSettings.apiKey = "sk-1"
  /\ toast.type = "error"

\* C38: an error shown by the button stays displayed for its full 5
\* seconds: when an auto-clear timer fires while a later one is still
\* pending (timers of equal delay fire in the order they were set, so the
\* one that fires belongs to an earlier error and the error on display to
\* the latest), the error on display stays.
C38_ErrorShownFullTime ==
  [][(clearTimers' = clearTimers - 1 /\ clearTimers' > 0 /\ localError # Null) =>
        localError' = localError]_vars

====
